---- MODULE Spec2Model ----
(***************************************************************************)
(* NokiTorProxy (src/nokiTOR.py): the TorProxyApp console.  The model      *)
(* covers the torrc patching of optimize/reset, the refresh workers that   *)
(* publish the live status, the action workers behind the "loading" flag,  *)
(* the keyboard dispatcher, the auto-refresh timer and the status banner.  *)
(***************************************************************************)
EXTENDS Integers, Sequences, FiniteSets, Bags, TLC

VARIABLES
    file,           \* bytes of the torrc file, as a sequence of tokens
    svc,            \* the tor service is running (what is-active reports)
    net,            \* the network answers the HTTP probes
    tor_active, tor_connected, real_ip, tor_ip, tor_country, optimized,
    lock,           \* self.lock is held
    refreshers,     \* bag of the refresh workers alive, each its next statement
    seen,           \* what the last draw() read: per field, is it of the running cycle
    loading,        \* self.loading
    auto_enabled,   \* self.auto_enabled
    due_in,         \* max(0, self.next_refresh - time.time()), in seconds
    workers,        \* bag of the action worker threads alive
    status_msg, status_color,
    clears,         \* the clear() threads of show_status alive: <<msg, pc>>
    pool,           \* how many threads of each kind a run follows at a time
    orig, hist      \* patch runs only: the first content and the operations applied

vars == <<file, svc, net, tor_active, tor_connected, real_ip, tor_ip, tor_country,
          optimized, lock, refreshers, seen, loading, auto_enabled, due_in, workers,
          status_msg, status_color, clears, pool, orig, hist>>

live == <<tor_active, tor_connected, real_ip, tor_ip, tor_country, optimized>>

(***************************************************************************)
(* Text of the torrc.  A file is a sequence of tokens: the two line ends,  *)
(* the marker, the two directive keywords (each with its blank) and other  *)
(* text.  No token is a part of another one, so a token sequence is one    *)
(* string and substring search and the regular expression work per token.  *)
(***************************************************************************)
NL == "\n"
CR == "\r"
MARKER == "# NokiTorProxy"
EXITNODES == "ExitNodes "
STRICTNODES == "StrictNodes "
TEXT == "a"
SPEED_COUNTRIES == "{de},{nl},{us},{fr},{gb},{ch},{se}"
ZERO == "0"

Tokens == {NL, CR, MARKER, EXITNODES, STRICTNODES, TEXT}

\* subprocess.run(..., text=True): the captured bytes are decoded and every
\* "\r\n" and every lone "\r" becomes "\n" (universal newlines).
RECURSIVE translate_newlines(_)
translate_newlines(b) ==
    IF b = <<>> THEN <<>>
    ELSE IF b[1] = CR
         THEN IF Len(b) >= 2 /\ b[2] = NL
              THEN <<NL>> \o translate_newlines(SubSeq(b, 3, Len(b)))
              ELSE <<NL>> \o translate_newlines(Tail(b))
         ELSE <<b[1]>> \o translate_newlines(Tail(b))

\* _read_torrc: sudo cat; the text on success, "" when cat fails.
read_torrc(bytes, ok) == IF ok THEN translate_newlines(bytes) ELSE <<>>

\* "# NokiTorProxy" in text
HasMarker(text) == \E i \in 1..Len(text) : text[i] = MARKER

\* is_optimized
is_optimized(bytes, ok) == HasMarker(read_torrc(bytes, ok))

\* the block action_optimize appends
cfg == <<NL, MARKER, NL, EXITNODES, SPEED_COUNTRIES, NL, STRICTNODES, ZERO, NL>>

\* what sudo tee leaves in the file when it succeeds: -a appends
tee(bytes, content, append) == IF append THEN bytes \o content ELSE content

\* first index >= i of a "\n" in s, Len(s)+1 when there is none: where [^\n]+ stops
RECURSIVE LineEnd(_, _)
LineEnd(s, i) == IF i > Len(s) \/ s[i] = NL THEN i ELSE LineEnd(s, i + 1)

\* r"\n?# NokiTorProxy\nExitNodes [^\n]+\nStrictNodes [^\n]+\n?" matched at i:
\* the index after the match, 0 when it does not match there.  Both optional
\* newlines are greedy; without the leading one the match cannot start on "\n".
MatchEnd(s, i) ==
    LET p == IF i <= Len(s) /\ s[i] = NL THEN i + 1 ELSE i
        q == LineEnd(s, p + 3)
        r == LineEnd(s, q + 2)
    IN  IF /\ p + 3 <= Len(s)
           /\ s[p] = MARKER /\ s[p + 1] = NL /\ s[p + 2] = EXITNODES
           /\ q > p + 3 /\ q + 2 <= Len(s)
           /\ s[q + 1] = STRICTNODES
           /\ r > q + 2
        THEN IF r <= Len(s) THEN r + 1 ELSE r
        ELSE 0

\* re.sub(pattern, "", text): leftmost matches, left to right, not overlapping
RECURSIVE re_sub_from(_, _)
re_sub_from(s, i) ==
    IF i > Len(s) THEN <<>>
    ELSE LET e == MatchEnd(s, i)
         IN  IF e > 0 THEN re_sub_from(s, e)
             ELSE <<s[i]>> \o re_sub_from(s, i + 1)

re_sub(s) == re_sub_from(s, 1)

\* the file after a run of action_optimize in which cat, tee and restart succeed
apply(C) == IF is_optimized(C, TRUE) THEN C ELSE tee(C, cfg, TRUE)

\* the file after a run of action_reset in which cat, tee and restart succeed
remove(C) ==
    IF ~is_optimized(C, TRUE) THEN C ELSE tee(C, re_sub(read_torrc(C, TRUE)), FALSE)

(***************************************************************************)
(* Construction: TorProxyApp.__init__ and the start of run().              *)
(***************************************************************************)
SENTINEL == "-"

Fields == {"tor_active", "tor_connected", "real_ip", "tor_ip", "tor_country", "optimized"}

\* the attributes __init__ sets; the torrc, the service and the network are given
Constructed ==
    /\ tor_active = FALSE /\ tor_connected = FALSE
    /\ real_ip = SENTINEL /\ tor_ip = SENTINEL /\ tor_country = ""
    /\ optimized = FALSE
    /\ lock = FALSE
    /\ seen = [f \in Fields |-> FALSE]
    /\ loading = FALSE
    /\ auto_enabled = FALSE /\ due_in = 0
    /\ workers = EmptyBag
    /\ status_msg = "" /\ status_color = 0
    /\ clears = {}

(***************************************************************************)
(* The torrc patch alone: one operator, every command succeeds, optimize   *)
(* and reset run one after the other on a given file.                      *)
(***************************************************************************)
MaxPad == 1
MaxOps == 3

RECURSIVE SeqsUpTo(_, _)
SeqsUpTo(S, n) ==
    IF n = 0 THEN {<<>>}
    ELSE LET shorter == SeqsUpTo(S, n - 1)
         IN  shorter \cup {<<x>> \o t : x \in S, t \in {u \in shorter : Len(u) = n - 1}}

\* what the file may hold between its first and last lines: nothing, the marker
\* alone, the marker with one directive, a block written by hand, the block of cfg
Middles ==
    { <<>>,
      <<MARKER>>,
      <<MARKER, NL, EXITNODES, TEXT, NL>>,
      <<MARKER, NL, EXITNODES, TEXT, NL, STRICTNODES, TEXT>>,
      cfg }

PatchInputs ==
    {pre \o mid \o post : pre \in SeqsUpTo(Tokens, MaxPad), mid \in Middles,
                          post \in SeqsUpTo(Tokens, MaxPad)}

InitPatch ==
    /\ Constructed
    /\ refreshers = EmptyBag
    /\ file \in PatchInputs
    /\ orig = file /\ hist = <<>>
    /\ svc = TRUE /\ net = TRUE
    /\ pool = [worker |-> 0, refresh |-> 0, clear |-> 0]

PatchFrame ==
    UNCHANGED <<svc, net, live, lock, refreshers, seen, loading, auto_enabled, due_in,
                workers, status_msg, status_color, clears, pool, orig>>

ApplyRun ==
    /\ Len(hist) < MaxOps
    /\ file' = apply(file)
    /\ hist' = Append(hist, "apply")
    /\ PatchFrame

RemoveRun ==
    /\ Len(hist) < MaxOps
    /\ file' = remove(file)
    /\ hist' = Append(hist, "remove")
    /\ PatchFrame

NextPatch == ApplyRun \/ RemoveRun

SpecPatch == InitPatch /\ [][NextPatch]_vars

\* C5: idempotence of the patch: for any file content C,
\* apply(remove(apply(C))) = apply(C) and remove(apply(remove(C))) = remove(C).
C5_Idempotence ==
    /\ hist = <<"apply", "remove", "apply">> => file = apply(orig)
    /\ hist = <<"remove", "apply", "remove">> => file = remove(orig)

\* C6: round trip: for any file content C without the marker,
\* remove(apply(C)) = C byte for byte.
C6_RoundTrip ==
    (hist = <<"apply", "remove">> /\ ~HasMarker(orig)) => file = orig


(***************************************************************************)
(* Threads.  _run_async starts a daemon thread and forgets it.  A run      *)
(* follows at most pool.<kind> threads of a kind at a time; a thread       *)
(* started beyond that is one that has not run yet and is left out.        *)
(***************************************************************************)
MaxWorkers == 2
MaxRefresh == 2
MaxFile == 20
TickSec == 15
AUTO_REFRESH_SEC == 30

\* _run_async(fn), for the threads kept in a bag
run_async(threads, t, cap) ==
    IF BagCardinality(threads) < cap THEN threads (+) SetToBag({t}) ELSE threads

Moved(threads, t, t2) == (threads (-) SetToBag({t})) (+) SetToBag({t2})

Ended(threads, t) == threads (-) SetToBag({t})

\* the status texts and their colour pairs (2 green, 3 yellow, 4 red, 5 white)
PROXY_URL == "socks5://127.0.0.1:9050"
MSG_RESTART_FAILED == "TOR restart failed"
MSG_NEW_IP == "New IP"
MSG_COPIED == "Copied to clipboard"
MSG_ALREADY == "Already optimized"
MSG_ERROR == "Error"
MSG_OPTIMIZED == "Optimized"
MSG_NOT_OPTIMIZED == "Not optimized"
MSG_RESET == "Reset"
MSG_DNS_OK == "TOR OK, DNS protected"
MSG_DNS_UNKNOWN == "TOR OK, DNS unknown"
MSG_NOT_CONNECTED == "TOR not connected"
MSG_AUTO_ON == "Auto ON (30s)"
MSG_AUTO_OFF == "Auto OFF"
GREEN == 2
YELLOW == 3
RED == 4
WHITE == 5

\* show_status: the text and colour are replaced and a clear() thread is started
show_status(msg, color) ==
    /\ status_msg' = msg
    /\ status_color' = color
    /\ clears' = IF Cardinality(clears) < pool.clear
                 THEN clears \cup {<<msg, "sleep">>} ELSE clears

\* clear() of show_status, c = <<msg, "sleep">>: after time.sleep(3), the test
\* `if self.status_msg == msg`
ClearWake(c) ==
    /\ c \in clears /\ c[2] = "sleep"
    /\ clears' = IF status_msg = c[1]
                 THEN (clears \ {c}) \cup {<<c[1], "assign">>}
                 ELSE clears \ {c}
    /\ UNCHANGED <<file, svc, net, live, lock, refreshers, seen, loading, auto_enabled,
                   due_in, workers, status_msg, status_color, pool, orig, hist>>

\* clear() of show_status, c = <<msg, "assign">>: self.status_msg = ""
ClearAssign(c) ==
    /\ c \in clears /\ c[2] = "assign"
    /\ status_msg' = ""
    /\ clears' = clears \ {c}
    /\ UNCHANGED <<file, svc, net, live, lock, refreshers, seen, loading, auto_enabled,
                   due_in, workers, status_color, pool, orig, hist>>

\* refresh_data: a refresh worker is started; it first waits for self.lock
refresh_data == refreshers' = run_async(refreshers, "wait", pool.refresh)

(***************************************************************************)
(* The service and the probes.                                             *)
(***************************************************************************)
\* is_tor_active: systemctl is-active / service status
is_tor_active == svc

\* verify_tor: IsTor of check.torproject.org through the proxy, False on any error
verify_tor == svc /\ net

\* check_dns: the request through the proxy completed
check_dns == svc /\ net

\* get_real_ip: the address, the sentinel on any error
REAL_IP == "198.51.100.7"

\* a failed request leaves the address of the cycle before
get_real_ip_stale == IF net THEN REAL_IP ELSE real_ip

get_real_ip == IF net THEN REAL_IP ELSE SENTINEL

\* get_tor_ip: (query, countryCode) through the proxy, ("-", "") on any error
EXIT_IP == "185.220.101.4"
EXIT_COUNTRY == "DE"
get_tor_ip == IF svc /\ net THEN <<EXIT_IP, EXIT_COUNTRY>> ELSE <<SENTINEL, "">>

\* _tor_action("restart"): on success the service runs; when sudo or the
\* service manager fails it is left as it was or stopped
tor_action_restart(ok) ==
    IF ok THEN svc' = TRUE ELSE svc' \in {svc, FALSE}

\* _write_torrc succeeds: tee exits 0.  A full disk is among its failures.
CanWrite(content, append) ==
    (IF append THEN Len(file) + Len(content) ELSE Len(content)) <= MaxFile

(***************************************************************************)
(* refresh_data's worker: five assignments under self.lock.                *)
(***************************************************************************)
RefreshPcs ==
    <<"is_tor_active", "verify_tor", "get_real_ip", "get_tor_ip", "is_optimized">>

\* the fields the worker at pc has assigned in its cycle
Assigned(pc) ==
    CASE pc = "verify_tor" -> {"tor_active"}
      [] pc = "get_real_ip" -> {"tor_active", "tor_connected"}
      [] pc = "get_tor_ip" -> {"tor_active", "tor_connected", "real_ip"}
      [] pc = "is_optimized" ->
            {"tor_active", "tor_connected", "real_ip", "tor_ip", "tor_country"}
      [] OTHER -> {}

RefreshFrame ==
    UNCHANGED <<file, svc, net, seen, loading, auto_enabled, due_in, workers,
                status_msg, status_color, clears, pool, orig, hist>>

\* the worker goes on without the lock being free
RefreshAcquire_unlocked ==
    /\ BagIn("wait", refreshers)
    /\ lock' = TRUE
    /\ refreshers' = Moved(refreshers, "wait", "is_tor_active")
    /\ UNCHANGED live
    /\ RefreshFrame

\* with self.lock:
RefreshAcquire ==
    /\ BagIn("wait", refreshers)
    /\ ~lock
    /\ lock' = TRUE
    /\ refreshers' = Moved(refreshers, "wait", "is_tor_active")
    /\ UNCHANGED live
    /\ RefreshFrame

RefreshActive ==
    /\ BagIn("is_tor_active", refreshers)
    /\ tor_active' = is_tor_active
    /\ refreshers' = Moved(refreshers, "is_tor_active", "verify_tor")
    /\ UNCHANGED <<lock, tor_connected, real_ip, tor_ip, tor_country, optimized>>
    /\ RefreshFrame

RefreshConnected ==
    /\ BagIn("verify_tor", refreshers)
    /\ tor_connected' = IF tor_active THEN verify_tor ELSE FALSE
    /\ refreshers' = Moved(refreshers, "verify_tor", "get_real_ip")
    /\ UNCHANGED <<lock, tor_active, real_ip, tor_ip, tor_country, optimized>>
    /\ RefreshFrame

RefreshRealIp ==
    /\ BagIn("get_real_ip", refreshers)
    /\ real_ip' = get_real_ip
    /\ refreshers' = Moved(refreshers, "get_real_ip", "get_tor_ip")
    /\ UNCHANGED <<lock, tor_active, tor_connected, tor_ip, tor_country, optimized>>
    /\ RefreshFrame

RefreshTorIp ==
    /\ BagIn("get_tor_ip", refreshers)
    /\ LET got == IF tor_active THEN get_tor_ip ELSE <<SENTINEL, "">>
       IN  tor_ip' = got[1] /\ tor_country' = got[2]
    /\ refreshers' = Moved(refreshers, "get_tor_ip", "is_optimized")
    /\ UNCHANGED <<lock, tor_active, tor_connected, real_ip, optimized>>
    /\ RefreshFrame

RefreshOptimized ==
    /\ BagIn("is_optimized", refreshers)
    /\ \E ok \in BOOLEAN : optimized' = is_optimized(file, ok)
    /\ refreshers' = Ended(refreshers, "is_optimized")
    /\ lock' = FALSE
    /\ UNCHANGED <<tor_active, tor_connected, real_ip, tor_ip, tor_country>>
    /\ RefreshFrame

RefreshStep ==
    \/ RefreshAcquire \/ RefreshActive \/ RefreshConnected
    \/ RefreshRealIp \/ RefreshTorIp \/ RefreshOptimized

\* updater: every 30 s, refresh_data() unless loading
Updater ==
    /\ ~loading
    /\ refresh_data
    /\ UNCHANGED <<file, svc, net, live, lock, seen, loading, auto_enabled, due_in,
                   workers, status_msg, status_color, clears, pool, orig, hist>>

\* draw: one pass of the render loop over the live status, without the lock
Draw ==
    /\ seen' = [f \in Fields |->
                   \E pc \in BagToSet(refreshers) : f \in Assigned(pc)]
    /\ UNCHANGED <<file, svc, net, live, lock, refreshers, loading, auto_enabled,
                   due_in, workers, status_msg, status_color, clears, pool, orig, hist>>

\* the world: the network comes and goes, the service stops or is started
World ==
    /\ \/ net' = ~net /\ UNCHANGED svc
       \/ svc' = ~svc /\ UNCHANGED net
    /\ UNCHANGED <<file, live, lock, refreshers, seen, loading, auto_enabled, due_in,
                   workers, status_msg, status_color, clears, pool, orig, hist>>


(***************************************************************************)
(* The action workers.  A worker is a record: its action, its next         *)
(* statement, who started it (a key or the timer) and its locals.          *)
(***************************************************************************)
Worker(kind, by) == [kind |-> kind, pc |-> "start", by |-> by, ok |-> TRUE, text |-> <<>>]

At(w, kind, pc) == BagIn(w, workers) /\ w.kind = kind /\ w.pc = pc

\* the result of the write is not looked at
after_write_ignored(ok) == "restart"

\* `if not self._write_torrc(...)`: the statement after the write
after_write(ok) == IF ok THEN "restart" ELSE "failed"

\* the result of the restart is not looked at
after_restart_ignored(ok) == "settle"

\* `if not self._tor_action("restart")`: the statement after the restart
after_restart(ok) == IF ok THEN "settle" ELSE "failed"

\* the worker reschedules and refreshes whatever the restart returned
new_ip_goes_on_always(ok) == TRUE

\* `if not ok` of action_new_ip: does the worker go on to reschedule and refresh
new_ip_goes_on(ok) == ok

\* action_new_ip worker: self.loading = True
NewIpStart(w) ==
    /\ At(w, "new_ip", "start")
    /\ loading' = TRUE
    /\ workers' = Moved(workers, w, [w EXCEPT !.pc = "restart"])
    /\ UNCHANGED <<file, svc, net, live, lock, refreshers, seen, auto_enabled, due_in,
                   status_msg, status_color, clears, pool, orig, hist>>

\* ok = self._tor_action("restart")
NewIpRestart(w) ==
    /\ At(w, "new_ip", "restart")
    /\ \E ok \in BOOLEAN :
          /\ tor_action_restart(ok)
          /\ workers' = Moved(workers, w, [w EXCEPT !.pc = "pace", !.ok = ok])
    /\ UNCHANGED <<file, net, live, lock, refreshers, seen, loading, auto_enabled,
                   due_in, status_msg, status_color, clears, pool, orig, hist>>

\* after the 5 s of "Connecting...": loading = False and the outcome
NewIpEnd(w) ==
    /\ At(w, "new_ip", "pace")
    /\ loading' = FALSE
    /\ workers' = Ended(workers, w)
    /\ IF new_ip_goes_on(w.ok)
       THEN /\ due_in' = IF auto_enabled THEN AUTO_REFRESH_SEC ELSE due_in
            /\ refresh_data
            /\ show_status(MSG_NEW_IP, GREEN)
       ELSE /\ show_status(MSG_RESTART_FAILED, RED)
            /\ UNCHANGED <<due_in, refreshers>>
    /\ UNCHANGED <<file, svc, net, live, lock, seen, auto_enabled, pool, orig, hist>>

\* action_optimize worker: is_optimized(), then loading = True
OptimizeStart(w) ==
    /\ At(w, "optimize", "start")
    /\ \E ok \in BOOLEAN :
          IF is_optimized(file, ok)
          THEN /\ show_status(MSG_ALREADY, YELLOW)
               /\ workers' = Ended(workers, w)
               /\ UNCHANGED loading
          ELSE /\ loading' = TRUE
               /\ workers' = Moved(workers, w, [w EXCEPT !.pc = "write"])
               /\ UNCHANGED <<status_msg, status_color, clears>>
    /\ UNCHANGED <<file, svc, net, live, lock, refreshers, seen, auto_enabled, due_in,
                   pool, orig, hist>>

\* action_reset worker: is_optimized(), then loading = True
ResetStart(w) ==
    /\ At(w, "reset", "start")
    /\ \E ok \in BOOLEAN :
          IF ~is_optimized(file, ok)
          THEN /\ show_status(MSG_NOT_OPTIMIZED, YELLOW)
               /\ workers' = Ended(workers, w)
               /\ UNCHANGED loading
          ELSE /\ loading' = TRUE
               /\ workers' = Moved(workers, w, [w EXCEPT !.pc = "read"])
               /\ UNCHANGED <<status_msg, status_color, clears>>
    /\ UNCHANGED <<file, svc, net, live, lock, refreshers, seen, auto_enabled, due_in,
                   pool, orig, hist>>

\* cleaned = re.sub(..., "", self._read_torrc())
ResetRead(w) ==
    /\ At(w, "reset", "read")
    /\ \E ok \in BOOLEAN :
          workers' = Moved(workers, w,
                           [w EXCEPT !.pc = "write", !.text = re_sub(read_torrc(file, ok))])
    /\ UNCHANGED <<file, svc, net, live, lock, refreshers, seen, loading, auto_enabled,
                   due_in, status_msg, status_color, clears, pool, orig, hist>>

\* self._write_torrc(cfg) of optimize, self._write_torrc(cleaned, append=False) of reset
WriteTorrc(w) ==
    /\ BagIn(w, workers) /\ w.kind \in {"optimize", "reset"} /\ w.pc = "write"
    /\ LET content == IF w.kind = "optimize" THEN cfg ELSE w.text
           append == w.kind = "optimize"
       IN  \E ok \in {b \in BOOLEAN : b => CanWrite(content, append)} :
              /\ file' = IF ok THEN tee(file, content, append) ELSE file
              /\ IF after_write(ok) = "restart"
                 THEN /\ workers' = Moved(workers, w,
                                           [w EXCEPT !.pc = "restart", !.ok = ok])
                      /\ UNCHANGED <<loading, status_msg, status_color, clears>>
                 ELSE /\ loading' = FALSE
                      /\ show_status(MSG_ERROR, RED)
                      /\ workers' = Ended(workers, w)
    /\ UNCHANGED <<svc, net, live, lock, refreshers, seen, auto_enabled, due_in,
                   pool, orig, hist>>

\* self._tor_action("restart") of optimize and reset
Restart(w) ==
    /\ BagIn(w, workers) /\ w.kind \in {"optimize", "reset"} /\ w.pc = "restart"
    /\ \E ok \in BOOLEAN :
          /\ tor_action_restart(ok)
          /\ IF after_restart(ok) = "settle"
             THEN /\ workers' = Moved(workers, w, [w EXCEPT !.pc = "settle", !.ok = ok])
                  /\ UNCHANGED <<loading, status_msg, status_color, clears>>
             ELSE /\ loading' = FALSE
                  /\ show_status(MSG_RESTART_FAILED, RED)
                  /\ workers' = Ended(workers, w)
    /\ UNCHANGED <<file, net, live, lock, refreshers, seen, auto_enabled, due_in,
                   pool, orig, hist>>

\* the success path ends without `self.loading = False`
Settle_keeps_loading(w) ==
    /\ BagIn(w, workers) /\ w.kind \in {"optimize", "reset"} /\ w.pc = "settle"
    /\ refresh_data
    /\ show_status(IF w.kind = "optimize" THEN MSG_OPTIMIZED ELSE MSG_RESET, GREEN)
    /\ workers' = Ended(workers, w)
    /\ UNCHANGED <<file, svc, net, live, lock, seen, loading, auto_enabled, due_in,
                   pool, orig, hist>>

\* after time.sleep(5): loading = False, refresh_data(), the success text
Settle(w) ==
    /\ BagIn(w, workers) /\ w.kind \in {"optimize", "reset"} /\ w.pc = "settle"
    /\ loading' = FALSE
    /\ refresh_data
    /\ show_status(IF w.kind = "optimize" THEN MSG_OPTIMIZED ELSE MSG_RESET, GREEN)
    /\ workers' = Ended(workers, w)
    /\ UNCHANGED <<file, svc, net, live, lock, seen, auto_enabled, due_in,
                   pool, orig, hist>>

\* action_dns_test worker: self.loading = True
DnsStart(w) ==
    /\ At(w, "dns", "start")
    /\ loading' = TRUE
    /\ workers' = Moved(workers, w, [w EXCEPT !.pc = "verify_tor"])
    /\ UNCHANGED <<file, svc, net, live, lock, refreshers, seen, auto_enabled, due_in,
                   status_msg, status_color, clears, pool, orig, hist>>

\* tor_ok = self.verify_tor()
DnsVerify(w) ==
    /\ At(w, "dns", "verify_tor")
    /\ workers' = Moved(workers, w, [w EXCEPT !.pc = "check_dns", !.ok = verify_tor])
    /\ UNCHANGED <<file, svc, net, live, lock, refreshers, seen, loading, auto_enabled,
                   due_in, status_msg, status_color, clears, pool, orig, hist>>

\* dns_ok = self.check_dns(); loading = False; the verdict
DnsEnd(w) ==
    /\ At(w, "dns", "check_dns")
    /\ loading' = FALSE
    /\ IF w.ok /\ check_dns THEN show_status(MSG_DNS_OK, GREEN)
       ELSE IF w.ok THEN show_status(MSG_DNS_UNKNOWN, YELLOW)
       ELSE show_status(MSG_NOT_CONNECTED, RED)
    /\ workers' = Ended(workers, w)
    /\ UNCHANGED <<file, svc, net, live, lock, refreshers, seen, auto_enabled, due_in,
                   pool, orig, hist>>

\* one statement of one of the action workers alive
WorkerStep ==
    \/ \E w \in BagToSet(workers) : NewIpStart(w)
    \/ \E w \in BagToSet(workers) : NewIpRestart(w)
    \/ \E w \in BagToSet(workers) : NewIpEnd(w)
    \/ \E w \in BagToSet(workers) : OptimizeStart(w)
    \/ \E w \in BagToSet(workers) : ResetStart(w)
    \/ \E w \in BagToSet(workers) : ResetRead(w)
    \/ \E w \in BagToSet(workers) : WriteTorrc(w)
    \/ \E w \in BagToSet(workers) : Restart(w)
    \/ \E w \in BagToSet(workers) : Settle(w)
    \/ \E w \in BagToSet(workers) : DnsStart(w)
    \/ \E w \in BagToSet(workers) : DnsVerify(w)
    \/ \E w \in BagToSet(workers) : DnsEnd(w)

(***************************************************************************)
(* The main loop's key dispatch and the auto-refresh timer.                *)
(***************************************************************************)
Mutating == {"new_ip", "optimize", "reset", "dns"}

\* no key looks at self.loading
key_gate_open(what) == TRUE

\* the conditions of the elif chain: `and not self.loading` for r, o, x and d,
\* none for c and a
key_gate(what) == what \in Mutating => ~loading

KeyFrame ==
    UNCHANGED <<file, svc, net, live, lock, refreshers, seen, loading, auto_enabled,
                due_in, status_msg, status_color, clears, pool, orig, hist>>

\* keys r, o, x, d: the action's worker is started unless loading
KeyAction(kind) ==
    /\ key_gate(kind)
    /\ workers' = run_async(workers, Worker(kind, "key"), pool.worker)
    /\ KeyFrame

KeyR == KeyAction("new_ip")
KeyO == KeyAction("optimize")
KeyX == KeyAction("reset")
KeyD == KeyAction("dns")

\* key c: action_copy, in the main loop itself
KeyC ==
    /\ key_gate("copy")
    /\ \E copied \in BOOLEAN :
          IF copied THEN show_status(MSG_COPIED, GREEN)
          ELSE show_status(PROXY_URL, WHITE)
    /\ UNCHANGED <<file, svc, net, live, lock, refreshers, seen, loading, auto_enabled,
                   due_in, workers, pool, orig, hist>>

\* key a: action_toggle_auto, in the main loop itself
KeyA ==
    /\ key_gate("toggle_auto")
    /\ auto_enabled' = ~auto_enabled
    /\ IF auto_enabled'
       THEN due_in' = AUTO_REFRESH_SEC /\ show_status(MSG_AUTO_ON, GREEN)
       ELSE UNCHANGED due_in /\ show_status(MSG_AUTO_OFF, WHITE)
    /\ UNCHANGED <<file, svc, net, live, lock, refreshers, seen, loading, workers,
                   pool, orig, hist>>

\* auto_refresh_worker, one turn of its loop that finds the refresh due
AutoRefresh ==
    /\ auto_enabled /\ ~loading /\ due_in = 0
    /\ workers' = run_async(workers, Worker("new_ip", "timer"), pool.worker)
    /\ KeyFrame

\* time passes
Tick ==
    /\ due_in > 0
    /\ due_in' = IF due_in > TickSec THEN due_in - TickSec ELSE 0
    /\ UNCHANGED <<file, svc, net, live, lock, refreshers, seen, loading, auto_enabled,
                   workers, status_msg, status_color, clears, pool, orig, hist>>

(***************************************************************************)
(* The running application: from the entry of the main loop of run().      *)
(***************************************************************************)
InitFiles ==
    { <<TEXT, NL>>,
      <<TEXT, NL>> \o cfg,
      <<TEXT, NL, MARKER, NL>> }

\* run() up to `while self.running`: the service was found or started, the
\* first refresh_data() is under way; p is the pool of the run
Running(p, files) ==
    /\ Constructed
    /\ refreshers = run_async(EmptyBag, "wait", p.refresh)
    /\ pool = p
    /\ file \in files
    /\ svc = TRUE /\ net = TRUE
    /\ orig = <<>> /\ hist = <<>>

(***************************************************************************)
(* The scheduler: the keys, the timer and two action workers at a time;    *)
(* the refresh workers they start are not followed.                        *)
(***************************************************************************)
Init == Running([worker |-> MaxWorkers, refresh |-> 0, clear |-> 0], {<<TEXT, NL>>})

Next ==
    \/ KeyR \/ KeyO \/ KeyX \/ KeyD \/ KeyC \/ KeyA
    \/ AutoRefresh \/ Tick
    \/ WorkerStep

Spec == Init /\ [][Next]_vars

\* every external call returns and every started thread runs: a worker that
\* is alive takes its next statement
SpecFair == Spec /\ WF_vars(WorkerStep)

(***************************************************************************)
(* One action at a time, with the refresh worker it starts.                *)
(***************************************************************************)
InitAction == Running([worker |-> 1, refresh |-> 1, clear |-> 0], InitFiles)

NextAction ==
    \/ KeyR \/ KeyO \/ KeyX \/ KeyD
    \/ WorkerStep
    \/ Updater
    \/ RefreshStep

SpecAction == InitAction /\ [][NextAction]_vars

(***************************************************************************)
(* The state store: the refresh workers, the render loop and the world.    *)
(***************************************************************************)
InitStore == Running([worker |-> 0, refresh |-> MaxRefresh, clear |-> 0], InitFiles)

NextStore == Updater \/ RefreshStep \/ Draw \/ World

SpecStore == InitStore /\ [][NextStore]_vars

(***************************************************************************)
(* Every key and the timer, one action worker at a time and the refresh    *)
(* worker it starts.                                                       *)
(***************************************************************************)
InitAuto == Running([worker |-> 1, refresh |-> 1, clear |-> 0], {<<TEXT, NL>>})

NextAuto ==
    \/ KeyR \/ KeyO \/ KeyX \/ KeyD \/ KeyC \/ KeyA
    \/ AutoRefresh \/ Tick
    \/ WorkerStep
    \/ RefreshStep

SpecAuto == InitAuto /\ [][NextAuto]_vars

(***************************************************************************)
(* The status banner: the keys handled in the main loop itself and the     *)
(* clear() threads their show_status calls start.                          *)
(***************************************************************************)
MaxClears == 2

InitBanner == Running([worker |-> 0, refresh |-> 0, clear |-> MaxClears], {<<TEXT, NL>>})

NextBanner ==
    \/ KeyC
    \/ KeyA
    \/ \E c \in clears : ClearWake(c)
    \/ \E c \in clears : ClearAssign(c)

SpecBanner == InitBanner /\ [][NextBanner]_vars


(***************************************************************************)
(* The claims.                                                             *)
(***************************************************************************)
\* the threads of a bag that satisfy P
Those(threads, P(_)) == [t \in {u \in DOMAIN threads : P(u)} |-> threads[t]]

\* the step is one of worker w: it leaves its statement
Leaves(w) == BagIn(w, workers) /\ CopiesIn(w, workers') < CopiesIn(w, workers)

\* C1: atomic snapshot: a pass of the render loop never reads live status fields
\* that come from two different refresh cycles.
C1_AtomicSnapshot == \A f, g \in Fields : seen[f] = seen[g]

\* a worker that has been started and has not finished its blocking calls:
\* optimize and reset from their first is_optimized() read on, new identity
\* and the DNS test from their first statement on
InFlight(w) == w.kind \in {"optimize", "reset"} \/ w.pc # "start"

\* C2: loading is true whenever at least one action worker is in flight.
C2_BusyWhileInFlight ==
    (\E w \in BagToSet(workers) : InFlight(w)) => loading

\* a worker started by a key that is writing the torrc or restarting the service
ManualMutator(w) == w.by = "key" /\ w.pc \in {"write", "restart"}

\* C3: with auto-refresh disabled, at most one manually started action at a
\* time is writing the torrc or restarting the service.
C3_OneMutatorAtATime ==
    ~auto_enabled => BagCardinality(Those(workers, ManualMutator)) <= 1

\* C4: busy exclusivity: a worker of r, o, x or d is started by the dispatcher
\* only in a state where loading is false, while the keys c and a are handled
\* whether loading or not.
C4_BusyExclusivity ==
    /\ [][(\E w \in BagToSet(workers') :
              /\ w.by = "key" /\ w.pc = "start"
              /\ CopiesIn(w, workers') > CopiesIn(w, workers)) => ~loading]_vars
    /\ [](ENABLED KeyC /\ ENABLED KeyA)

\* a key was handled while loading: a worker started by a key waits to run
\* beside one that has set loading, and the banner of key a is up
C4_Witness ==
    /\ loading
    /\ status_msg = MSG_AUTO_ON
    /\ \E w \in BagToSet(workers) : w.by = "key" /\ w.pc = "start"

\* C7: after a reset whose overwrite succeeded on a file that held the marker,
\* is_optimized() is false (so the next reset is a no-op).
C7_ResetClearsMarker ==
    [][\A w \in BagToSet(workers) :
          (/\ w.kind = "reset" /\ w.pc = "write" /\ Leaves(w)
           /\ HasMarker(file)
           /\ \E v \in BagToSet(workers') : v.kind = "reset" /\ v.pc = "restart")
          => ~is_optimized(file', TRUE)]_vars

\* C8: scenario B: when the torrc holds the marker, optimize shows the
\* "already" text in the warning colour and leaves the file, the service,
\* loading and the refresh workers as they are.
C8_AlreadyOptimized ==
    [][\A w \in BagToSet(workers) :
          (w.kind = "optimize" /\ w.pc = "start" /\ Leaves(w) /\ HasMarker(file))
          => /\ workers' = Ended(workers, w)
             /\ status_msg' = MSG_ALREADY /\ status_color' = YELLOW
             /\ UNCHANGED <<file, svc, loading, refreshers>>]_vars

\* C9: when the write of the torrc fails in optimize or reset, the worker ends
\* there: no restart, no refresh, loading false, the error text in red.
C9_WriteFailure ==
    [][\A w \in BagToSet(workers) :
          (w.pc = "write" /\ Leaves(w))
          => \/ /\ workers' = Moved(workers, w, [w EXCEPT !.pc = "restart", !.ok = TRUE])
                /\ UNCHANGED <<loading, status_msg, status_color>>
             \/ /\ workers' = Ended(workers, w)
                /\ ~loading'
                /\ status_msg' = MSG_ERROR /\ status_color' = RED
                /\ UNCHANGED <<file, svc, refreshers, live>>]_vars

\* a write has failed: the error text is up and nothing is in flight
C9_Witness ==
    /\ status_msg = MSG_ERROR /\ status_color = RED
    /\ ~loading /\ workers = EmptyBag

\* C10: when the restart fails in new identity, optimize or reset, the worker
\* shows the error text in red and starts no refresh, and no step of an action
\* worker changes a live status field.
C10_RestartFailure ==
    [][/\ \A w \in BagToSet(workers) :
             (w.kind \in {"optimize", "reset"} /\ w.pc = "restart" /\ Leaves(w))
             => \/ workers' = Moved(workers, w, [w EXCEPT !.pc = "settle", !.ok = TRUE])
                \/ /\ workers' = Ended(workers, w)
                   /\ status_msg' = MSG_RESTART_FAILED /\ status_color' = RED
                   /\ UNCHANGED refreshers
       /\ \A w \in BagToSet(workers) :
             (w.kind = "new_ip" /\ w.pc = "pace" /\ ~w.ok /\ Leaves(w))
             => /\ workers' = Ended(workers, w)
                /\ status_msg' = MSG_RESTART_FAILED /\ status_color' = RED
                /\ UNCHANGED refreshers
       /\ workers' # workers => UNCHANGED live]_vars

\* a restart has failed after a refresh cycle published the live status
C10_Witness ==
    /\ status_msg = MSG_RESTART_FAILED /\ status_color = RED
    /\ workers = EmptyBag
    /\ real_ip = REAL_IP

\* the step is one of the refresh worker at statement pc: it leaves the statement
RefreshLeaves(pc) ==
    BagIn(pc, refreshers) /\ CopiesIn(pc, refreshers') < CopiesIn(pc, refreshers)

\* C11: sentinel on failure: in a refresh cycle, a failed real-identity probe
\* assigns the sentinel to real_ip, a failed proxy-identity probe (or an
\* inactive service) assigns the sentinel to tor_ip and "" to tor_country, and
\* the rest of the cycle leaves these fields as assigned.
C11_SentinelOnFailure ==
    [][/\ (RefreshLeaves("get_real_ip") /\ ~net) => real_ip' = SENTINEL
       /\ (RefreshLeaves("get_tor_ip") /\ (~tor_active \/ ~svc \/ ~net))
             => (tor_ip' = SENTINEL /\ tor_country' = "")
       /\ (RefreshLeaves("get_tor_ip") \/ RefreshLeaves("is_optimized"))
             => real_ip' = real_ip
       /\ RefreshLeaves("is_optimized") => UNCHANGED <<tor_ip, tor_country>>]_vars

\* a cycle has completed with the service active and both identity probes failed
C11_Witness ==
    /\ ~lock /\ refreshers = EmptyBag
    /\ tor_active
    /\ real_ip = SENTINEL /\ tor_ip = SENTINEL /\ tor_country = ""

\* C12: scenario C: after a refresh cycle in which the service is active and
\* verify_tor() failed, tor_connected is false, tor_ip is the sentinel and
\* tor_country is empty, whatever get_tor_ip() returns.
C12_ScenarioC ==
    (~lock /\ tor_active /\ ~tor_connected)
        => (tor_ip = SENTINEL /\ tor_country = "")

\* the step starts a worker on behalf of the timer
TimerFires ==
    \E w \in BagToSet(workers') :
        /\ w.by = "timer" /\ w.pc = "start"
        /\ CopiesIn(w, workers') > CopiesIn(w, workers)

\* the step is the end of new identity worker w: loading = False and what follows
NewIpCompletes(w) == w.kind = "new_ip" /\ w.pc = "pace" /\ Leaves(w)

\* C13: scenario D: once the timer has triggered a new identity, it triggers no
\* second one while the first has run its first statement and not ended, and
\* when that one ends (auto-refresh still enabled) the next one is due later,
\* not at once.
C13_TimerFiresOnce ==
    [][/\ TimerFires =>
             ~\E v \in BagToSet(workers) : v.by = "timer" /\ v.pc # "start"
       /\ \A w \in BagToSet(workers) :
             (w.by = "timer" /\ NewIpCompletes(w) /\ auto_enabled) => due_in' > 0]_vars

\* C14: every new identity that completes while auto-refresh is enabled leaves
\* the next refresh due a full interval after its completion, on every outcome
\* of the restart.
C14_RescheduledOnCompletion ==
    [][\A w \in BagToSet(workers) :
          (NewIpCompletes(w) /\ auto_enabled) => due_in' = AUTO_REFRESH_SEC]_vars

C15_StaleWriteGuard ==
    [][\A c \in clears :
          (c[2] = "assign" /\ c \notin clears') => status_msg = c[1]]_vars

\* C17: reset never destroys configuration: whenever the overwrite of reset
\* succeeds, the file then holds its content of before the write with the
\* optimization block removed and nothing else; a failed read for the removal
\* does not end in an empty file.
C17_ResetKeepsConfig ==
    [][\A w \in BagToSet(workers) :
          (/\ w.kind = "reset" /\ w.pc = "write" /\ Leaves(w)
           /\ \E v \in BagToSet(workers') : v.kind = "reset" /\ v.pc = "restart")
          => file' = re_sub(read_torrc(file, TRUE))]_vars

\* how many times the marker occurs in a text
RECURSIVE MarkerCount(_)
MarkerCount(text) ==
    IF text = <<>> THEN 0
    ELSE (IF Head(text) = MARKER THEN 1 ELSE 0) + MarkerCount(Tail(text))

\* C18: starting from a torrc without the marker, the file never holds more
\* than one optimization block, whatever keys are pressed and however the
\* workers interleave.
C18_AtMostOneBlock == MarkerCount(file) <= 1

\* C19: busy is never left stuck: a state with loading true is followed by one
\* with loading false, and whenever no action worker is alive loading is false
\* and the keys r, o, x and d are taken.
C19_BusyNotStuck ==
    /\ loading ~> ~loading
    /\ [](workers = EmptyBag =>
            (~loading /\ ENABLED KeyR /\ ENABLED KeyO /\ ENABLED KeyX /\ ENABLED KeyD))

\* an action that had set loading has ended on its write failure path and
\* nothing is in flight
C19_Witness ==
    /\ ~loading /\ workers = EmptyBag
    /\ status_msg = MSG_ERROR
    /\ auto_enabled

\* the refresh workers inside `with self.lock`
Probing == [pc \in {q \in DOMAIN refreshers : q # "wait"} |-> refreshers[pc]]

\* C20: the refresh workers are serialized by the lock: at most one is inside
\* it, the live status is written only by the one inside, which releases the
\* lock with its last assignment, and whenever the lock is free tor_connected
\* implies tor_active and an inactive service goes with the sentinel in tor_ip
\* and an empty tor_country.
C20_RefreshSerialized ==
    /\ [](/\ BagCardinality(Probing) <= 1
          /\ lock <=> BagCardinality(Probing) = 1
          /\ ~lock => /\ tor_connected => tor_active
                      /\ ~tor_active => (tor_ip = SENTINEL /\ tor_country = ""))
    /\ [][/\ live' # live => (lock /\ \E pc \in DOMAIN Probing : RefreshLeaves(pc))
          /\ (lock /\ ~lock') => RefreshLeaves("is_optimized")]_vars

\* a cycle that found the service inactive has completed and released the
\* lock, and the next refresh worker is waiting for it
C20_Witness ==
    /\ ~lock /\ BagIn("wait", refreshers)
    /\ ~tor_active /\ real_ip = REAL_IP
    /\ tor_ip = SENTINEL /\ tor_country = ""

====
